---- MODULE Spec2Model ----
(***************************************************************************)
(* A model of the VideoRAG Streamlit application (src/app.py) and its      *)
(* helpers (src/videodb_utils.py).                                         *)
(*                                                                         *)
(* The model takes the script past its start: the VideoDB key is set and   *)
(* the connection is open. One action is one run of the script with one    *)
(* button clicked; the Highlight Reel run is cut into its steps (start,    *)
(* one query per topic, merge, stitch). The Transcript tab only reads, and  *)
(* is left out. The external calls (upload, indexing, search, answer       *)
(* generation, stitching) are choices over their possible results.         *)
(*                                                                         *)
(* Times are kept in half seconds, so that two different start times can   *)
(* truncate to the same integer second: the value t stands for t/2 seconds *)
(* (1 is 0.5 s, 2 is 1.0 s, 3 is 1.5 s, ...).                              *)
(***************************************************************************)
EXTENDS Integers, Sequences, FiniteSets, TLC

VARIABLES
    session_state, \* st.session_state: the four active-video fields
    pc,            \* position of the script run
    output,        \* what the last handler showed to the user
    calls,         \* the queries passed to vr.search_video_content in this run
    segments,      \* tab_search, tab_quiz: the segments of the last search
    topic_list,    \* tab_reel: the topics of the request
    all_segments,  \* tab_reel: the segments collected across the topics
    timeline,      \* tab_reel: the timeline built by the merge loop
    stitched,      \* tab_reel: the timelines passed to video.generate_stream
    again,         \* the timeline obtained by merging a timeline once more
    table          \* shots_table_html: the segments given and the html returned

vars == <<session_state, pc, output, calls, segments, topic_list, all_segments,
          timeline, stitched, again, table>>

\* Python's None, among values that are texts: a sequence no text equals.
None == <<"None">>

\* ------------------------------------------------------------------ bounds
\* The largest time offset, in half seconds.
MaxTime == 4
\* The largest number of segments handed to the merge loop.
MaxSegs == 3
\* The longest text a user types into a text input.
MaxLen == 3
\* The largest number of segments one search returns.
MaxHits == 2

\* ------------------------------------------------------------ the segments
\* A segment as the merge loop reads it: s["start_time"] and s["end_time"],
\* with end_time >= start_time >= 0.
Segments ==
    {s \in [start_time : 0..MaxTime, end_time : 0..MaxTime] : s.end_time >= s.start_time}

SeqsUpTo(S, n) == UNION {[1..k -> S] : k \in 0..n}

\* Python's int() of a float: truncation towards zero (times in half seconds).
PyInt(x) == IF x >= 0 THEN x \div 2 ELSE -((-x) \div 2)

\* A faulty key: the start time itself, not truncated to the second.
KeyExact(s) == s.start_time

\* key = int(s["start_time"])
Key(s) == PyInt(s.start_time)

\* (int(s["start_time"]), int(s["end_time"]))
Entry(s) == <<PyInt(s.start_time), PyInt(s.end_time)>>

\* One step of Python's stable sort by start_time: s goes after every element
\* whose start_time is not greater.
RECURSIVE Insert(_, _)
Insert(s, sorted) ==
    IF sorted = <<>> THEN <<s>>
    ELSE IF Head(sorted).start_time <= s.start_time
         THEN <<Head(sorted)>> \o Insert(s, Tail(sorted))
         ELSE <<s>> \o sorted

\* A faulty sort: stable, but in descending start_time order.
RECURSIVE SortedDescending(_)
SortedDescending(segs) ==
    IF segs = <<>> THEN <<>>
    ELSE LET rest == SortedDescending(Tail(segs))
             before == SelectSeq(rest, LAMBDA x : x.start_time > Head(segs).start_time)
             after == SelectSeq(rest, LAMBDA x : x.start_time <= Head(segs).start_time)
         IN before \o <<Head(segs)>> \o after

\* A faulty sort: the segments in the order they were collected.
Unsorted(segs) == segs

\* sorted(all_segments, key=lambda x: x["start_time"])
RECURSIVE Sorted(_)
Sorted(segs) ==
    IF segs = <<>> THEN <<>>
    ELSE Insert(segs[Len(segs)], Sorted(SubSeq(segs, 1, Len(segs) - 1)))

\* A faulty merge loop: a segment of a second already seen replaces the entry.
RECURSIVE MergeLoopLastWins(_, _, _)
MergeLoopLastWins(segs, seen, tl) ==
    IF segs = <<>> THEN tl
    ELSE LET s == Head(segs)
         IN IF Key(s) \in seen
            THEN MergeLoopLastWins(Tail(segs), seen,
                     [i \in 1..Len(tl) |-> IF tl[i][1] = Key(s) THEN Entry(s) ELSE tl[i]])
            ELSE MergeLoopLastWins(Tail(segs), seen \cup {Key(s)}, Append(tl, Entry(s)))

\* The merge loop over the sorted segments, from the state (seen, timeline).
RECURSIVE MergeLoop(_, _, _)
MergeLoop(segs, seen, tl) ==
    IF segs = <<>> THEN tl
    ELSE LET s == Head(segs)
         IN IF Key(s) \in seen
            THEN MergeLoop(Tail(segs), seen, tl)
            ELSE MergeLoop(Tail(segs), seen \cup {Key(s)}, Append(tl, Entry(s)))

\* timeline = []; seen = set(); for s in sorted(all_segments, ...): ...
MergeTimeline(segs) == MergeLoop(Sorted(segs), {}, <<>>)

\* A timeline entry (start, end), in whole seconds, read as a segment again.
AsSegment(e) == [start_time |-> 2 * e[1], end_time |-> 2 * e[2]]
AsSegments(tl) == [i \in 1..Len(tl) |-> AsSegment(tl[i])]

\* ------------------------------------------------------- the session state
\* defaults = {"video_obj": None, "video_id": None, ...}
defaults ==
    [video_obj |-> None, video_id |-> None, video_url |-> None,
     video_collection_name |-> None]

NoOutput == [tab |-> "none", kind |-> "none"]
NoTable == [segments |-> <<>>, html |-> <<>>]

app_vars == <<session_state, output, calls, segments, topic_list, stitched, table>>

\* ----------------------------------------------------------------- strings
\* A text is a sequence of characters; "a" stands for any character that is
\* neither whitespace nor a comma.
Chars == {"a", " ", ","}
Texts == SeqsUpTo(Chars, MaxLen)
\* What is typed into the one-line inputs of the other tabs: nothing, blanks
\* only, a word, a word between blanks.
Words == {<<>>, <<" ">>, <<"a">>, <<" ", "a", "a">>, <<" ", "a", " ">>}

RECURSIVE LStrip(_)
LStrip(s) == IF s # <<>> /\ Head(s) = " " THEN LStrip(Tail(s)) ELSE s

RECURSIVE RStrip(_)
RStrip(s) ==
    IF s # <<>> /\ s[Len(s)] = " " THEN RStrip(SubSeq(s, 1, Len(s) - 1)) ELSE s

\* str.strip()
Strip(s) == RStrip(LStrip(s))

\* str.split(","): the pieces between the commas; one piece, the text itself,
\* when there is no comma ("".split(",") is [""]).
RECURSIVE Split(_)
Split(s) ==
    IF \A i \in 1..Len(s) : s[i] # ","
    THEN <<s>>
    ELSE LET c == CHOOSE i \in 1..Len(s) : s[i] = "," /\ \A j \in 1..(i - 1) : s[j] # ","
         IN <<SubSeq(s, 1, c - 1)>> \o Split(SubSeq(s, c + 1, Len(s)))

\* topic_list = [t.strip() for t in topics.split(",") if t.strip()]
TopicList(topics) ==
    LET pieces == Split(topics)
        kept == SelectSeq(pieces, LAMBDA piece : Strip(piece) # <<>>)
    IN [i \in 1..Len(kept) |-> Strip(kept[i])]

\* ------------------------------------------------------- the collaborators
\* The videos of the account and the one collection the sidebar names.
\* A video stands for its id, a text; the sidebar keeps its collection name.
Videos == {<<"a">>, <<"a", "a">>}
COLLECTION_NAME == <<"a">>
YouTubeUrl == <<"youtube.com/watch?v=x">>
Raise == <<"raise">>
File == <<"file">>

\* What collection.upload does: it returns a video, returns nothing, or raises.
UploadResults == Videos \cup {None, Raise}

\* What video.index_spoken_words does: it returns, or raises, with a message
\* that says the video is already indexed or with another one.
IndexResults == {"ok", "raise already indexed", "raise other"}

\* upload_video_any(collection, url, file): (vid, url) for a URL, (vid, None)
\* for a file; an exception of collection.upload propagates.
upload_video_any(url, file, uploaded) ==
    IF url # <<>>
    THEN IF uploaded = Raise
         THEN [raised |-> TRUE, video |-> None, working_url |-> None]
         ELSE [raised |-> FALSE, video |-> uploaded, working_url |-> url]
    ELSE IF file # None
         THEN IF uploaded = Raise
              THEN [raised |-> TRUE, video |-> None, working_url |-> None]
              ELSE [raised |-> FALSE, video |-> uploaded, working_url |-> None]
         ELSE [raised |-> TRUE, video |-> None, working_url |-> None]

\* ensure_index_spoken(video): an "already indexed" error is swallowed, any
\* other one is raised again.
ensure_index_spoken(indexed) ==
    IF indexed = "ok" THEN "returned"
    ELSE IF indexed = "raise already indexed" THEN "returned"
    ELSE "raised"

\* ---------------------------------------------------------- Upload or Link
\* A faulty save: the fields are saved before the check of the upload's result.
SessionAfterUploadUnchecked(state, up) ==
    IF up.raised THEN state
    ELSE [video_obj |-> up.video, video_id |-> up.video,
          video_url |-> up.working_url, video_collection_name |-> COLLECTION_NAME]

\* The session state after the try block of the ingest handler: the four
\* fields are saved once upload_video_any returned a video, before indexing.
SessionAfterUpload(state, up) ==
    IF up.raised \/ up.video = None THEN state
    ELSE [video_obj |-> up.video, video_id |-> up.video,
          video_url |-> up.working_url, video_collection_name |-> COLLECTION_NAME]

\* What the ingest handler shows: the failure and the step it came from, or
\* the success message.
IngestOutput(up, indexed) ==
    IF up.raised
    THEN [tab |-> "upload", kind |-> "error", step |-> "upload", video |-> None,
          url |-> None]
    ELSE IF up.video = None
    THEN [tab |-> "upload", kind |-> "upload_failed", step |-> "upload", video |-> None,
          url |-> None]
    ELSE IF ensure_index_spoken(indexed) = "raised"
    THEN [tab |-> "upload", kind |-> "error", step |-> "index", video |-> up.video,
          url |-> up.working_url]
    ELSE [tab |-> "upload", kind |-> "success", step |-> "done", video |-> up.video,
          url |-> up.working_url]

\* The locals of the other tabs do not exist in a run that does not click them.
NoLocals ==
    /\ calls' = <<>>
    /\ segments' = <<>>
    /\ topic_list' = <<>>
    /\ all_segments' = <<>>
    /\ timeline' = <<>>
    /\ stitched' = <<>>
    /\ table' = NoTable
    /\ UNCHANGED again

\* if st.button("Ingest and index"): ...
Ingest ==
    /\ pc = "idle"
    /\ \E chosen_url \in {<<>>, YouTubeUrl}, uploaded_file \in {None, File} :
        \* the radio shows one of the two inputs
        /\ chosen_url = <<>> \/ uploaded_file = None
        /\ IF chosen_url = <<>> /\ uploaded_file = None
           THEN /\ output' = [tab |-> "upload", kind |-> "nothing_chosen",
                              step |-> "input", video |-> None, url |-> None]
                /\ UNCHANGED session_state
           ELSE \E uploaded \in UploadResults, indexed \in IndexResults :
                    LET up == upload_video_any(chosen_url, uploaded_file, uploaded)
                    IN /\ session_state' = SessionAfterUpload(session_state, up)
                       /\ output' = IngestOutput(up, indexed)
    /\ NoLocals
    /\ UNCHANGED pc

\* get_current_video(): the object kept in the session, else the video fetched
\* by id from the active collection, else None (no id, no collection, or the
\* fetch raised).
CurrentVideos(state) ==
    IF state.video_obj # None THEN {state.video_obj}
    ELSE IF state.video_id = None THEN {None}
    ELSE IF state.video_collection_name = None THEN {None}
    ELSE {None} \cup ({state.video_id} \cap Videos)

\* Every tab after the first begins with: if not video: st.stop()
HasVideo == \E video \in CurrentVideos(session_state) : video # None

\* if not video: st.warning("Add and index a video first ..."); st.stop()
\* A run in which get_current_video() finds no video ends at tab_search,
\* whatever was clicked in the tabs after it.
NoVideo ==
    /\ pc = "idle"
    /\ None \in CurrentVideos(session_state)
    /\ output' = [tab |-> "search", kind |-> "no_video", attempted |-> FALSE,
                  shown |-> [timestamp |-> None, score |-> -1, text |-> None]]
    /\ NoLocals
    /\ UNCHANGED <<session_state, pc>>

\* ----------------------------------------------------------------- Library
\* if st.button("Load as active"): ...
LoadAsActive ==
    /\ pc = "idle"
    /\ HasVideo
    /\ \E picked_video \in Videos, source_url \in {None, YouTubeUrl} :
        session_state' = [video_obj |-> picked_video, video_id |-> picked_video,
                          video_url |-> source_url,
                          video_collection_name |-> COLLECTION_NAME]
    /\ output' = [tab |-> "library", kind |-> "loaded"]
    /\ NoLocals
    /\ UNCHANGED pc

\* manual_id.strip() or None
StripOrNone(s) == IF Strip(s) = <<>> THEN None ELSE Strip(s)

\* if st.button("Load id"): ...
LoadId ==
    /\ pc = "idle"
    /\ HasVideo
    /\ \E manual_id \in Words, manual_coll \in {<<>>, <<"a">>} :
        session_state' = [video_obj |-> None,
                          video_id |-> StripOrNone(manual_id),
                          video_url |-> None,
                          video_collection_name |-> StripOrNone(manual_coll)]
    /\ output' = [tab |-> "library", kind |-> "loaded"]
    /\ NoLocals
    /\ UNCHANGED pc

\* ------------------------------------------------------ the search results
\* The transcript index of the active video: the segment records that
\* vr.search_video_content can return. The text of a transcript is a sequence
\* of characters too; "<td>" stands for markup inside it.
Hits ==
    {[start_time |-> 2, end_time |-> 5, score |-> 92,
      timestamp |-> <<"00:01">>, text |-> <<"a">>],
     [start_time |-> 3, end_time |-> 4, score |-> 40,
      timestamp |-> <<"00:01">>, text |-> <<>>],
     [start_time |-> 7, end_time |-> 9, score |-> 40,
      timestamp |-> <<"00:03">>, text |-> <<"a", "<td>">>]}

\* What vr.search_video_content returns: segments in descending score order,
\* at most MaxHits of them (possibly none).
RankedResultSets ==
    {r \in SeqsUpTo(Hits, MaxHits) :
        \A i, j \in 1..Len(r) : i < j => (r[i].score >= r[j].score /\ r[i] # r[j])}

\* ... or the call raises.
SearchOutcomes ==
    {[raised |-> TRUE, segments |-> <<>>]}
        \cup {[raised |-> FALSE, segments |-> r] : r \in RankedResultSets}

\* setup_ai(...) returns (ai_client, used_provider).
AiSetups == [ai_client : {"None", "client"}, used_provider : {"none", "gemini"}]

\* ai_answer(...) returns the answer, or nothing.
Answers == {"", "answer"}

\* ----------------------------------------------------------- the html table
\* One row of shots_table_html: four cells, the text embedded as it is.
Row(i, s, linked) ==
    <<"<tr>", "<td>", ToString(i), "</td>", "<td>">>
        \o (IF linked THEN <<"<a>">> \o s.timestamp \o <<"</a>">> ELSE s.timestamp)
        \o <<"</td>", "<td>", ToString(s.score), "</td>", "<td>">>
        \o s.text
        \o <<"</td>", "</tr>">>

RECURSIVE Rows(_, _, _)
Rows(segs, i, linked) ==
    IF i > Len(segs) THEN <<>>
    ELSE Row(i, segs[i], linked) \o Rows(segs, i + 1, linked)

\* shots_table_html(url, segments, title): the html as a sequence of tags and
\* characters.
shots_table_html(url, segs) ==
    IF segs = <<>> THEN <<"<p>", "No segments to show.", "</p>">>
    ELSE <<"<h4>", "Top matches", "</h4>", "<table>", "<tr>",
           "<th>", "#", "</th>", "<th>", "Timestamp", "</th>",
           "<th>", "Score", "</th>", "<th>", "Preview", "</th>", "</tr>">>
         \o Rows(segs, 1, url # None)
         \o <<"</table>">>

\* ------------------------------------------------------------ Ask & Search
\* f"Found at {best['timestamp']} (score {best['score']}%)\n\n{best['text']}"
Found(best) ==
    [timestamp |-> best.timestamp, score |-> best.score, text |-> best.text]
Nothing == [timestamp |-> None, score |-> -1, text |-> None]

\* context = "\n".join(f"{s['timestamp']}: {s['text']}" for s in segs if s.get("text"))
Context(segs) ==
    LET with == SelectSeq(segs, LAMBDA s : s.text # <<>>)
    IN [i \in 1..Len(with) |-> with[i].timestamp \o <<":", " ">> \o with[i].text]

FirstThree(segs) == SubSeq(segs, 1, IF Len(segs) < 3 THEN Len(segs) ELSE 3)

HasQuestion(run_btn, question) == run_btn /\ Strip(question) # <<>>

\* What tab_search shows for the segments found.
SearchOutput(segs, ai, answer) ==
    IF segs = <<>>
    THEN [tab |-> "search", kind |-> "no_matches", attempted |-> FALSE, shown |-> Nothing]
    ELSE IF ai.used_provider # "none" /\ ai.ai_client # "None"
            /\ Context(FirstThree(segs)) # <<>>
         THEN IF answer # ""
              THEN [tab |-> "search", kind |-> "answer", attempted |-> TRUE,
                    shown |-> Nothing]
              ELSE [tab |-> "search", kind |-> "best_segment", attempted |-> TRUE,
                    shown |-> Found(segs[1])]
         ELSE [tab |-> "search", kind |-> "best_segment", attempted |-> FALSE,
               shown |-> Found(segs[1])]

Exception(tab) ==
    [tab |-> tab, kind |-> "exception", attempted |-> FALSE, shown |-> Nothing]

NoReel ==
    /\ topic_list' = <<>>
    /\ all_segments' = <<>>
    /\ timeline' = <<>>
    /\ stitched' = <<>>
    /\ UNCHANGED again

\* A run of the script with the Search button clicked or not.
Search ==
    /\ pc = "idle"
    /\ HasVideo
    /\ \E question \in Words, run_btn \in BOOLEAN :
        IF HasQuestion(run_btn, question)
        THEN /\ calls' = <<question>>
             /\ \E found \in SearchOutcomes :
                 /\ segments' = found.segments
                 /\ IF found.raised \/ found.segments = <<>>
                    THEN /\ output' = IF found.raised THEN Exception("search")
                                      ELSE SearchOutput(found.segments,
                                               [ai_client |-> "None",
                                                used_provider |-> "none"], "")
                         /\ table' = NoTable
                    ELSE /\ \E ai \in AiSetups, answer \in Answers :
                             output' = SearchOutput(found.segments, ai, answer)
                         /\ table' = [segments |-> found.segments,
                                      html |-> shots_table_html(session_state.video_url,
                                                                found.segments)]
        ELSE /\ calls' = <<>>
             /\ segments' = <<>>
             /\ output' = [tab |-> "search", kind |-> "none", attempted |-> FALSE,
                           shown |-> Nothing]
             /\ table' = NoTable
    /\ NoReel
    /\ UNCHANGED <<session_state, pc>>

\* -------------------------------------------------------------------- Quiz
\* What tab_quiz shows for the segments found (the wording of the basic
\* prompts and of the quiz is left out).
QuizOutput(segs, ai, answer) ==
    IF ai.used_provider = "none" \/ ai.ai_client = "None" \/ Context(segs) = <<>>
    THEN [tab |-> "quiz", kind |-> "basic_prompts", attempted |-> FALSE, shown |-> Nothing]
    ELSE IF answer # ""
         THEN [tab |-> "quiz", kind |-> "quiz", attempted |-> TRUE, shown |-> Nothing]
         ELSE [tab |-> "quiz", kind |-> "ai_failed", attempted |-> TRUE, shown |-> Nothing]

\* if make_quiz: ...
Quiz ==
    /\ pc = "idle"
    /\ HasVideo
    /\ \E topic \in Words, found \in SearchOutcomes :
        /\ calls' = <<topic>>
        /\ segments' = found.segments
        /\ IF found.raised
           THEN output' = Exception("quiz")
           ELSE \E ai \in AiSetups, answer \in Answers :
                    output' = QuizOutput(found.segments, ai, answer)
    /\ table' = NoTable
    /\ NoReel
    /\ UNCHANGED <<session_state, pc>>

\* ---------------------------------------------------------- Highlight Reel
\* if make_reel: ... topic_list = [...]; all_segments = []
ReelStart ==
    /\ pc = "idle"
    /\ HasVideo
    /\ \E topics \in Texts : topic_list' = TopicList(topics)
    /\ all_segments' = <<>>
    /\ calls' = <<>>
    /\ segments' = <<>>
    /\ timeline' = <<>>
    /\ stitched' = <<>>
    /\ output' = [tab |-> "reel", kind |-> "collecting", attempted |-> FALSE,
                  shown |-> Nothing]
    /\ pc' = "collecting"
    /\ table' = NoTable
    /\ UNCHANGED <<session_state, again>>

\* A faulty loop end: the merge follows the first query.
OneTopicQueried(topics, queried) == Len(queried) >= 1 \/ Len(topics) = 0

\* The for loop over topic_list has ended: every topic has been queried.
AllTopicsQueried(topics, queried) == Len(queried) = Len(topics)

\* for t in topic_list: all_segments.extend(vr.search_video_content(t, ...))
ReelQuery ==
    /\ pc = "collecting"
    /\ ~AllTopicsQueried(topic_list, calls)
    /\ calls' = Append(calls, topic_list[Len(calls) + 1])
    /\ \E found \in SearchOutcomes :
        IF found.raised
        THEN /\ pc' = "idle"
             /\ output' = Exception("reel")
             /\ UNCHANGED all_segments
        ELSE /\ all_segments' = all_segments \o found.segments
             /\ UNCHANGED <<pc, output>>
    /\ UNCHANGED <<session_state, segments, topic_list, timeline, stitched, again, table>>

\* timeline = []; seen = set(); for s in sorted(all_segments, ...): ...
ReelMerge ==
    /\ pc = "collecting"
    /\ AllTopicsQueried(topic_list, calls)
    /\ timeline' = MergeTimeline(all_segments)
    /\ pc' = "merged"
    /\ UNCHANGED <<session_state, output, calls, segments, topic_list, all_segments,
                   stitched, again, table>>

\* A faulty test: the timeline is never taken to be empty.
NeverEmpty(tl) == FALSE

\* not timeline
IsEmpty(tl) == tl = <<>>

\* timeline[0][0]
FirstStart(tl) == IF tl = <<>> THEN "IndexError" ELSE ToString(tl[1][1])

\* if not timeline: st.warning(...) else: video.generate_stream(timeline=timeline)
ReelFinish ==
    /\ pc = "merged"
    /\ IF IsEmpty(timeline)
       THEN /\ output' = [tab |-> "reel", kind |-> "no_segments", attempted |-> FALSE,
                          shown |-> Nothing]
            /\ UNCHANGED stitched
       ELSE /\ stitched' = Append(stitched, timeline)
            /\ \E stream_url \in {"url", "None", "raise"} :
                output' = IF stream_url = "url"
                          THEN [tab |-> "reel", kind |-> "video", attempted |-> FALSE,
                                shown |-> Nothing]
                          ELSE [tab |-> "reel", kind |-> "first_match",
                                attempted |-> FALSE, shown |-> Nothing,
                                start |-> FirstStart(timeline)]
    /\ pc' = "idle"
    /\ UNCHANGED <<session_state, calls, segments, topic_list, all_segments, timeline,
                   again, table>>

Init ==
    /\ session_state = defaults
    /\ pc = "idle"
    /\ output = NoOutput
    /\ calls = <<>>
    /\ segments = <<>>
    /\ topic_list = <<>>
    /\ all_segments = <<>>
    /\ timeline = <<>>
    /\ stitched = <<>>
    /\ again = <<>>
    /\ table = NoTable

Next ==
    \/ Ingest
    \/ NoVideo
    \/ LoadAsActive
    \/ LoadId
    \/ Search
    \/ Quiz
    \/ ReelStart
    \/ ReelQuery
    \/ ReelMerge
    \/ ReelFinish

Spec == Init /\ [][Next]_vars

\* ------------------------------------------------- the merge loop on its own
MergeInit ==
    /\ pc = "collected"
    /\ all_segments \in SeqsUpTo(Segments, MaxSegs)
    /\ timeline = <<>>
    /\ again = <<>>
    /\ session_state = defaults
    /\ output = NoOutput
    /\ calls = <<>>
    /\ segments = <<>>
    /\ topic_list = <<>>
    /\ stitched = <<>>
    /\ table = NoTable

Merge ==
    /\ pc = "collected"
    /\ timeline' = MergeTimeline(all_segments)
    /\ pc' = "merged"
    /\ UNCHANGED <<all_segments, again>>
    /\ UNCHANGED app_vars

Remerge ==
    /\ pc = "merged"
    /\ again' = MergeTimeline(AsSegments(timeline))
    /\ pc' = "remerged"
    /\ UNCHANGED <<all_segments, timeline>>
    /\ UNCHANGED app_vars

MergeNext == Merge \/ Remerge

SpecMerge == MergeInit /\ [][MergeNext]_vars

\* ------------------------------------------------ properties of the merge loop
\* The positions of the collected segments whose start_time truncates to k.
WithKey(segs, k) == {i \in 1..Len(segs) : segs[i].start_time \div 2 = k}

\* The position, among the segments with key k, that comes first in ascending
\* start_time order, the one collected first among equal start times.
FirstWithKey(segs, k) ==
    CHOOSE i \in WithKey(segs, k) :
        \A j \in WithKey(segs, k) :
            \/ segs[i].start_time < segs[j].start_time
            \/ segs[i].start_time = segs[j].start_time /\ i <= j

\* Ascending start_time with pairwise distinct integer-second keys.
Deduplicated(segs) ==
    \A i, j \in 1..Len(segs) :
        i < j => /\ segs[i].start_time <= segs[j].start_time
                 /\ segs[i].start_time \div 2 # segs[j].start_time \div 2

\* No two of the collected segments overlap.
Disjoint(segs) ==
    \A i, j \in 1..Len(segs) :
        (i # j /\ segs[i].start_time <= segs[j].start_time)
            => segs[i].end_time <= segs[j].start_time

\* C1: the timeline built by the merge loop is strictly ascending by its
\* entries' start value, and no two entries have the same start second.
C1_TimelineAscending ==
    pc = "merged" =>
        /\ \A i, j \in 1..Len(timeline) : i < j => timeline[i][1] < timeline[j][1]
        /\ \A i, j \in 1..Len(timeline) : timeline[i][1] = timeline[j][1] => i = j

\* C1 witness: segments collected out of order, two of them in the same
\* second, merged into a timeline of two entries.
C1_Witness ==
    /\ pc = "merged"
    /\ Len(all_segments) = 3
    /\ Len(timeline) = 2
    /\ all_segments[1].start_time > all_segments[2].start_time

\* C2: when two or more collected segments start in the same integer second,
\* the timeline has exactly one entry for that second, and it is
\* (int(start_time), int(end_time)) of the segment that comes first in
\* ascending start_time order (the one collected first, for equal start_time).
C2_FirstInSortedOrderWins ==
    pc = "merged" =>
        \A k \in 0..MaxTime :
            Cardinality(WithKey(all_segments, k)) >= 2 =>
                LET first == all_segments[FirstWithKey(all_segments, k)]
                    at == {n \in 1..Len(timeline) : timeline[n][1] = k}
                IN /\ Cardinality(at) = 1
                   /\ \A n \in at :
                        timeline[n] = <<first.start_time \div 2, first.end_time \div 2>>

\* C2 witness: two segments of the same second with different ends, the one
\* with the earlier start collected last; its entry is the one emitted.
C2_Witness ==
    /\ pc = "merged"
    /\ Len(all_segments) = 2
    /\ all_segments[1].start_time = 3
    /\ all_segments[1].end_time = 4
    /\ all_segments[2].start_time = 2
    /\ all_segments[2].end_time = 3
    /\ timeline = <<(<<1, 1>>)>>

\* C7 as stated: consecutive entries of the timeline never overlap.
C7_NonOverlapping ==
    pc = "merged" =>
        \A i \in 1..(Len(timeline) - 1) : timeline[i][2] <= timeline[i + 1][1]

\* C7 as amended: consecutive entries have strictly increasing start seconds,
\* and they do not overlap whenever no two collected segments overlap (the
\* merge loop neither trims nor coalesces overlapping segments).
C7_NonOverlappingIfInputIs ==
    pc = "merged" =>
        /\ \A i \in 1..(Len(timeline) - 1) : timeline[i][1] < timeline[i + 1][1]
        /\ Disjoint(all_segments) =>
               \A i \in 1..(Len(timeline) - 1) : timeline[i][2] <= timeline[i + 1][1]

\* C7 witness: two disjoint segments of positive length, merged into two
\* entries that do not overlap.
C7_Witness ==
    /\ pc = "merged"
    /\ Len(all_segments) = 2
    /\ Disjoint(all_segments)
    /\ \A i \in 1..2 : all_segments[i].end_time > all_segments[i].start_time
    /\ Len(timeline) = 2
    /\ timeline[1][2] <= timeline[2][1]

\* C8: on input in ascending start_time order with pairwise distinct
\* integer-second keys the timeline has one entry per segment, in the same
\* order, and merging that timeline again returns the same timeline.
C8_MergeOfDeduplicatedIsNoOp ==
    (pc \in {"merged", "remerged"} /\ Deduplicated(all_segments)) =>
        /\ Len(timeline) = Len(all_segments)
        /\ \A i \in 1..Len(timeline) :
               timeline[i] = <<all_segments[i].start_time \div 2,
                               all_segments[i].end_time \div 2>>
        /\ pc = "remerged" => again = timeline

\* C8 witness: three deduplicated segments, merged and merged again.
C8_Witness ==
    /\ pc = "remerged"
    /\ Deduplicated(all_segments)
    /\ Len(all_segments) = 3
    /\ Len(again) = 3
    /\ again = timeline

\* ------------------------------------------------- properties of the handlers
Count(html, tag) == Cardinality({i \in 1..Len(html) : html[i] = tag})

\* C3: vr.search_video_content is invoked only with a query whose trimmed
\* text is not empty.
C3_NoBlankQuery ==
    \A i \in 1..Len(calls) : calls[i] # <<>> /\ \E j \in 1..Len(calls[i]) : calls[i][j] # " "

\* C4: when answer generation was attempted on at least one segment and the
\* provider returned no answer, the output is the top-ranked segment with its
\* timestamp and score, in the Ask & Search tab and in the Quiz tab.
C4_FallbackToTopSegment ==
    (/\ output.tab \in {"search", "quiz"}
     /\ output.attempted
     /\ output.kind \notin {"answer", "quiz"}
     /\ segments # <<>>)
        => /\ output.kind = "best_segment"
           /\ output.shown = [timestamp |-> segments[1].timestamp,
                              score |-> segments[1].score,
                              text |-> segments[1].text]

\* C5: the merge step starts only after every topic has been queried, and
\* video.generate_stream is only ever given the timeline merged from the
\* segments collected over all the topics.
C5_MergeAfterAllTopics ==
    /\ pc = "merged" => calls = topic_list
    /\ \A i \in 1..Len(stitched) :
        /\ calls = topic_list
        /\ stitched[i] = timeline
        /\ output.kind # "exception"

\* C5 witness: a reel of two topics, both queried, stitched from the segments
\* of both.
C5_Witness ==
    /\ pc = "idle"
    /\ Len(topic_list) = 2
    /\ calls = topic_list
    /\ Len(all_segments) >= 2
    /\ stitched = <<timeline>>

\* C6: when every topic returned zero segments (or there is no topic), the
\* timeline is empty, video.generate_stream is not called, and the request
\* ends with the 'no segments found for a reel' warning.
C6_NoSegmentsNoReel ==
    (/\ pc \in {"merged", "idle"}
     /\ output.tab = "reel"
     /\ output.kind # "exception"
     /\ all_segments = <<>>)
        => /\ timeline = <<>>
           /\ stitched = <<>>
           /\ pc = "idle" => output.kind = "no_segments"

\* C6 witness: two topics were queried, both returned nothing, and the request
\* ended with the warning.
C6_Witness ==
    /\ pc = "idle"
    /\ output.tab = "reel"
    /\ output.kind = "no_segments"
    /\ Len(calls) = 2
    /\ all_segments = <<>>

\* C9: the table has exactly one row of four cells per segment (and the
\* header row), whatever the segments' text is.
C9_TableStructure ==
    table.segments # <<>> =>
        /\ Count(table.html, "<tr>") = Len(table.segments) + 1
        /\ Count(table.html, "<td>") = 4 * Len(table.segments)

\* C10 as stated: an ingest that fails at any step (the upload returns
\* nothing, the upload raises, the indexing raises) leaves the four
\* active-video fields unchanged.
C10_FailedIngestKeepsSession ==
    [][(output'.tab = "upload" /\ output'.kind \in {"upload_failed", "error"})
          => session_state' = session_state]_vars

\* C10 as amended: an ingest that fails at the upload (it returns nothing or
\* raises) leaves the four active-video fields unchanged; once the upload has
\* returned a video the fields are set to it, whether the indexing that
\* follows succeeds or raises.
C10_UploadFailureKeepsSession ==
    [][output'.tab = "upload" =>
          IF output'.step \in {"input", "upload"}
          THEN session_state' = session_state
          ELSE /\ output'.video \in Videos
               /\ session_state'.video_obj = output'.video
               /\ session_state'.video_id = output'.video
               /\ session_state'.video_url = output'.url
               /\ session_state'.video_collection_name = COLLECTION_NAME]_vars

\* C10 witness: an upload returned nothing while a video was active, and that
\* video is still the active one.
C10_Witness ==
    /\ output.tab = "upload"
    /\ output.kind = "upload_failed"
    /\ session_state.video_obj \in Videos
    /\ session_state.video_url = YouTubeUrl

====
